---- MODULE Spec2Model ----
(***************************************************************************)
(* Model of the HTTP exchange client of package rest (src/rest.go).        *)
(*                                                                         *)
(* Callers invoke Exchange or one of the verb functions.  Every call reads *)
(* the package-level providers Client and Timeout, creates a deadline      *)
(* context, builds the request, runs the request callback, dispatches the  *)
(* request, drains the body and returns (ResponseEntity, error).  Time is  *)
(* counted in seconds per call (elapsed since the call started).           *)
(***************************************************************************)
EXTENDS Integers, Sequences, FiniteSets, TLC

(* ---------------------------- bounds ----------------------------------- *)
MaxExchanges == 2      \* exchanges started in one behaviour (context ids)
MaxReassign == 1       \* reassignments of the provider variables
MaxBodyLen == 1        \* longest response body the server sends
MaxAllowLen == 2       \* longest Allow value drawn from the small alphabet

\* The goroutines that call the package concurrently.
Callers == {"a", "b"}

(* ------------------------- program constants --------------------------- *)
\* defaultTimeout: 10 * time.Second
DefaultTimeout == 10
\* defaultTransportTimeout: 5 * time.Second
DefaultTransportTimeout == 5

\* Time advances on a grid of the smaller of the two durations.
TickStep == DefaultTransportTimeout

\* Values a reassigned provider may return.
Durations == {DefaultTransportTimeout, DefaultTimeout}

\* The earliest instant, from the start of the call, at which the server's
\* answer can arrive: at once, or later than any timeout.
Latencies == {0, DefaultTimeout + DefaultTransportTimeout}

Min(a, b) == IF a <= b THEN a ELSE b

(* --------------------------- strings ----------------------------------- *)
\* A string is a sequence of one-character strings.
\* allowValue := "POST, GET, OPTIONS, PATCH, PUT, DELETE"
AllowTestValue ==
    <<"P","O","S","T",","," ","G","E","T",","," ","O","P","T","I","O",
      "N","S",","," ","P","A","T","C","H",","," ","P","U","T",","," ",
      "D","E","L","E","T","E">>

\* accessControlAllowMethodsValue: the same list of methods.
AccessControlAllowMethodsValue == AllowTestValue

\* accessControlAllowHeadersValue := "Accept, Content-Type, Content-Length,
\* Accept-Encoding, X-CSRF-Token, Authorization"
AccessControlAllowHeadersValue ==
    <<"A","c","c","e","p","t",","," ","C","o","n","t","e","n","t","-",
      "T","y","p","e",","," ","C","o","n","t","e","n","t","-","L","e",
      "n","g","t","h",","," ","A","c","c","e","p","t","-","E","n","c",
      "o","d","i","n","g",","," ","X","-","C","S","R","F","-","T","o",
      "k","e","n",","," ","A","u","t","h","o","r","i","z","a","t","i",
      "o","n">>

\* strings.Index(s, ","), 1-based; 0 when there is no comma.
RECURSIVE IndexComma(_, _)
IndexComma(s, i) ==
    IF i > Len(s) THEN 0
    ELSE IF s[i] = "," THEN i
    ELSE IndexComma(s, i + 1)

\* strings.Split(s, ","): the substrings between the commas, nothing trimmed.
RECURSIVE Split(_)
Split(s) ==
    LET i == IndexComma(s, 1) IN
    IF i = 0 THEN <<s>>
    ELSE <<SubSeq(s, 1, i - 1)>> \o Split(SubSeq(s, i + 1, Len(s)))

(* --------------------------- http.Header ------------------------------- *)
\* A header is nil or a mapping from names to lists of values.
NoValues == [n \in {} |-> <<>>]
NilHeader == [isNil |-> TRUE, m |-> NoValues]
\* make(http.Header)
MakeHeader == [isNil |-> FALSE, m |-> NoValues]

\* http.Header.Get: the first value of the name, "" when there is none.
HeaderGet(h, name) ==
    IF name \in DOMAIN h.m /\ Len(h.m[name]) > 0 THEN h.m[name][1] ELSE <<>>

HeaderLen(h) == Cardinality(DOMAIN h.m)

(* ------------------------- ResponseEntity ------------------------------ *)
ResponseEntity(status, header, body) ==
    [StatusCode |-> status, Header |-> header, Body |-> body]

\* ResponseEntity{}: the zero value, held before a call has returned.
ZeroEntity == ResponseEntity(0, NilHeader, <<>>)

\* ResponseEntity{Header: make(http.Header)}
EmptyEntity == ResponseEntity(0, MakeHeader, <<>>)

(* --------------------------- the server -------------------------------- *)
\* Status codes the test server writes: 200 (GET, PUT, PATCH, and HEAD and
\* OPTIONS by default), 201 (POST), 204 (DELETE).
HandlerStatuses == {200, 201, 204}

\* Status codes of failure a server other than the test server answers
\* with; exchange copies whatever res.StatusCode holds.
FailureStatuses == {404, 500}

Statuses == HandlerStatuses \cup FailureStatuses

\* The headers the test server sets on every response to a request that
\* carries no Origin header.
HandlerHeader ==
    [isNil |-> FALSE,
     m |-> [n \in {"Allow", "Access-Control-Allow-Methods",
                   "Access-Control-Allow-Headers"} |->
              CASE n = "Allow" -> <<AllowTestValue>>
                [] n = "Access-Control-Allow-Methods" ->
                      <<AccessControlAllowMethodsValue>>
                [] OTHER -> <<AccessControlAllowHeadersValue>>]]

\* The headers of a response that names no allowed methods: res.Header
\* holds no Allow entry.
NoAllowHeader ==
    [isNil |-> FALSE,
     m |-> [n \in {"Access-Control-Allow-Headers"} |->
              <<AccessControlAllowHeadersValue>>]]

\* Header sets a server answers with.
ServerHeaders == {HandlerHeader, NoAllowHeader}

\* Every string over a letter, the comma and the space, up to a length.
RECURSIVE StringsUpTo(_)
StringsUpTo(n) ==
    IF n = 0 THEN {<<>>}
    ELSE LET shorter == StringsUpTo(n - 1) IN
         shorter \cup { Append(s, ch) : s \in shorter, ch \in {"G", ",", " "} }

AllowValues == StringsUpTo(MaxAllowLen)

\* Further Allow headers: every short value, and two header lines.
AllowHeaders ==
    { [isNil |-> FALSE, m |-> [n \in {"Allow"} |-> << v >>]] : v \in AllowValues }
    \cup { [isNil |-> FALSE,
           m |-> [n \in {"Allow"} |-> << <<"G">>, <<"P", ",", "G">> >>]] }

RECURSIVE BodiesUpTo(_)
BodiesUpTo(n) ==
    IF n = 0 THEN {<<>>}
    ELSE BodiesUpTo(n - 1) \cup {[i \in 1..n |-> 1]}

Bodies == BodiesUpTo(MaxBodyLen)

\* The response of a call that has received none: *http.Response(nil).
NoResponse == [StatusCode |-> 0, Header |-> NilHeader, Body |-> <<>>]

(* ---------------------------- the calls -------------------------------- *)
Kinds == {"Exchange", "Get", "Head", "Post", "Put", "Patch",
          "OptionsForAllow", "Delete"}

URLs == {"http://host", ":bad"}

\* http.NewRequest fails on a URL that does not parse or a method that is
\* no token.
ValidURL(url) == url = "http://host"
ValidMethod(method) == method # "BAD METHOD"

MethodOf(kind) ==
    CASE kind = "Get" -> "GET"
      [] kind = "Head" -> "HEAD"
      [] kind = "Post" -> "POST"
      [] kind = "Put" -> "PUT"
      [] kind = "Patch" -> "PATCH"
      [] kind = "OptionsForAllow" -> "OPTIONS"
      [] kind = "Delete" -> "DELETE"
      [] OTHER -> "GET"

\* Headers the request callback adds to the request.
CallbackHeaders(cb) ==
    CASE cb = "defaultRequestCallback" -> {"Accept", "Content-Type", "Cache-Control"}
      [] cb = "custom" -> {"X-Custom"}
      [] OTHER -> {}

VARIABLES
    Timeout,           \* var Timeout: the duration the provider returns
    TransportTimeout,  \* var TransportTimeout: the dial duration it returns
    Client,            \* var Client: which provider builds the http.Client
    reassigned,        \* number of provider reassignments so far
    started,           \* number of exchanges started so far
    ctxUses,           \* context id -> number of calls it was handed to
    call               \* caller -> the state of its current call

vars == <<Timeout, TransportTimeout, Client, reassigned, started, ctxUses, call>>

NoClient == [Timeout |-> 0, DialTimeout |-> 0, TLSHandshakeTimeout |-> 0]
NoRequest == [built |-> FALSE, ctx |-> 0, header |-> {}]

IdleCall ==
    [pc |-> "idle", kind |-> "none", method |-> "", url |-> "", cb |-> "nil",
     client |-> NoClient, timeout |-> 0,
     ctx |-> 0, ctxDone |-> FALSE, elapsed |-> 0, latency |-> 0,
     req |-> NoRequest, log |-> <<>>,
     res |-> NoResponse, bodyState |-> "none",
     re |-> ZeroEntity, err |-> "nil", out |-> [err |-> "nil"]]

Init ==
    /\ Timeout = DefaultTimeout
    /\ TransportTimeout = DefaultTransportTimeout
    /\ Client = "defaultClient"
    /\ reassigned = 0
    /\ started = 0
    /\ ctxUses = [i \in 1..MaxExchanges |-> 0]
    /\ call = [p \in Callers |-> IdleCall]

(* ------------------------ provider variables --------------------------- *)
\* Timeout = func() time.Duration { return d }
SetTimeout(d) ==
    /\ reassigned < MaxReassign
    /\ d # Timeout
    /\ Timeout' = d
    /\ reassigned' = reassigned + 1
    /\ UNCHANGED <<TransportTimeout, Client, started, ctxUses, call>>

\* TransportTimeout = func() time.Duration { return d }
SetTransportTimeout(d) ==
    /\ reassigned < MaxReassign
    /\ d # TransportTimeout
    /\ TransportTimeout' = d
    /\ reassigned' = reassigned + 1
    /\ UNCHANGED <<Timeout, Client, started, ctxUses, call>>

\* Client = func() *http.Client { ... }
SetClient(k) ==
    /\ reassigned < MaxReassign
    /\ k # Client
    /\ Client' = k
    /\ reassigned' = reassigned + 1
    /\ UNCHANGED <<Timeout, TransportTimeout, started, ctxUses, call>>

\* A provider that returns &http.Client{}: no timeout of its own.
bareClient == NoClient

(* ------------------------------ exchange ------------------------------- *)
\* context.WithTimeout allocates a new context on every call.
NewContext(n) == n + 1

\* Mutant: the request is not bound to the deadline context, so only the
\* http.Client's own Timeout cuts the call off, and a client without one
\* never does.
DeadlineUnbound(c) ==
    IF c.client.Timeout = 0 THEN 4 * DefaultTimeout ELSE c.client.Timeout

\* The instant, counted from the start of the call, at which the call is
\* cut off: the context's deadline and the http.Client's own Timeout.
\* An http.Client with Timeout 0 sets no limit of its own.
Deadline(c) ==
    IF c.client.Timeout = 0 THEN c.timeout ELSE Min(c.timeout, c.client.Timeout)

\* strings.TrimLeft(s, " ")
RECURSIVE TrimLeft(_)
TrimLeft(s) ==
    IF Len(s) > 0 /\ s[1] = " " THEN TrimLeft(Tail(s)) ELSE s

\* Mutant: the tokens are trimmed after the split.
AllowListTrimmed(re) ==
    LET allowHeader == HeaderGet(re.Header, "Allow")
        tokens == Split(allowHeader)
    IN
    IF Len(allowHeader) > 0
    THEN [i \in 1..Len(tokens) |-> TrimLeft(tokens[i])]
    ELSE <<>>

\* OptionsForAllow's list: the Allow header split on commas, or []string{}.
AllowList(re) ==
    LET allowHeader == HeaderGet(re.Header, "Allow") IN
    IF Len(allowHeader) > 0 THEN Split(allowHeader) ELSE <<>>

\* Whether OptionsForAllow's list is the nil slice: strings.Split returns
\* a slice of at least one string, and []string{} is empty but not nil.
AllowIsNil(re) ==
    LET allowHeader == HeaderGet(re.Header, "Allow") IN
    IF Len(allowHeader) > 0 THEN FALSE ELSE FALSE

\* Mutant: the entity the verb functions forward has lost its body.
VerbResultNoBody(kind, re, err) ==
    CASE kind = "Head" -> [header |-> re.Header, err |-> err]
      [] kind = "OptionsForAllow" ->
            [allows |-> AllowList(re), allowsNil |-> AllowIsNil(re), err |-> err]
      [] kind = "Delete" -> [err |-> err]
      [] OTHER -> [re |-> [re EXCEPT !.Body = <<>>], err |-> err]

\* Mutant: Delete reports a status of 400 or more as an error.
VerbResultDeleteStatus(kind, re, err) ==
    CASE kind = "Head" -> [header |-> re.Header, err |-> err]
      [] kind = "OptionsForAllow" ->
            [allows |-> AllowList(re), allowsNil |-> AllowIsNil(re), err |-> err]
      [] kind = "Delete" ->
            [err |-> IF err = "nil" /\ re.StatusCode >= 400 THEN "status" ELSE err]
      [] OTHER -> [re |-> re, err |-> err]

\* What each exported function returns, given exchange's (re, err).
VerbResult(kind, re, err) ==
    CASE kind = "Head" -> [header |-> re.Header, err |-> err]
      [] kind = "OptionsForAllow" ->
            [allows |-> AllowList(re), allowsNil |-> AllowIsNil(re), err |-> err]
      [] kind = "Delete" -> [err |-> err]
      [] OTHER -> [re |-> re, err |-> err]

\* The deferred calls that run when exchange returns, last deferred first:
\* res.Body.Close() when dispatch succeeded, then cancel().  The locals of
\* exchange are gone once it has returned.
RunDefers(c) ==
    [c EXCEPT !.bodyState = IF @ = "open" THEN "closed" ELSE @,
              !.ctxDone = TRUE,
              !.log = IF c.bodyState = "open"
                      THEN @ \o <<"close", "cancel">>
                      ELSE Append(@, "cancel"),
              !.client = NoClient, !.timeout = 0,
              !.elapsed = 0, !.latency = 0]

\* Mutant: the error paths return the zero ResponseEntity{}, whose header
\* mapping is nil.
ReturnErrorNilHeader(c, err) ==
    [RunDefers(c) EXCEPT !.pc = "returned", !.re = ZeroEntity, !.err = err,
                         !.res = NoResponse,
                         !.out = VerbResult(c.kind, ZeroEntity, err)]

\* Mutant: the error paths return without running the deferred calls.
ReturnErrorLeaks(c, err) ==
    [c EXCEPT !.pc = "returned", !.re = EmptyEntity, !.err = err,
              !.res = NoResponse, !.client = NoClient, !.timeout = 0,
              !.elapsed = 0, !.latency = 0,
              !.out = VerbResult(c.kind, EmptyEntity, err)]

\* Mutant: an error after the response arrived returns the response's
\* headers with the error.
ReturnErrorKeepsHeader(c, err) ==
    LET re == IF c.res = NoResponse THEN EmptyEntity
              ELSE ResponseEntity(0, c.res.Header, <<>>)
    IN
    [RunDefers(c) EXCEPT !.pc = "returned", !.re = re, !.err = err,
                         !.res = NoResponse,
                         !.out = VerbResult(c.kind, re, err)]

\* return ResponseEntity{Header: make(http.Header)}, err
ReturnError(c, err) ==
    [RunDefers(c) EXCEPT !.pc = "returned", !.re = EmptyEntity, !.err = err,
                         !.res = NoResponse,
                         !.out = VerbResult(c.kind, EmptyEntity, err)]

\* return ResponseEntity{StatusCode: res.StatusCode, Header: res.Header,
\*                       Body: resBody}, nil
ReturnEntity(c, res, resBody) ==
    LET re == ResponseEntity(res.StatusCode, res.Header, resBody) IN
    [RunDefers(c) EXCEPT !.pc = "returned", !.re = re, !.err = "nil",
                         !.out = VerbResult(c.kind, re, "nil")]

\* Number of contexts created so far.
Contexts == Cardinality({i \in DOMAIN ctxUses : ctxUses[i] > 0})

\* A caller invokes Exchange or a verb function, and Exchange calls the
\* provider the variable Client holds.  defaultClient starts with its first
\* read, Dialer{Timeout: TransportTimeout()}; a provider that returns
\* &http.Client{} reads nothing.  No lock guards the provider variables:
\* a reassignment may fall between any two of the reads that follow.
Begin(p, kind, method, url, cb) ==
    /\ call[p].pc = "idle"
    /\ started < MaxExchanges
    /\ kind = "Exchange" \/ (method = MethodOf(kind) /\ cb = "defaultRequestCallback")
    /\ started' = started + 1
    /\ call' = [call EXCEPT ![p] =
          [IdleCall EXCEPT !.kind = kind, !.method = method,
                           !.url = url, !.cb = cb,
                           !.pc = IF Client = "defaultClient"
                                  THEN "tls" ELSE "timeout",
                           !.client = IF Client = "defaultClient"
                                      THEN [NoClient EXCEPT
                                              !.DialTimeout = TransportTimeout]
                                      ELSE bareClient]]
    /\ UNCHANGED <<Timeout, TransportTimeout, Client, reassigned, ctxUses>>

\* defaultClient: TLSHandshakeTimeout: TransportTimeout()
TLSHandshakeTimeout(p) ==
    LET c == call[p] IN
    /\ c.pc = "tls"
    /\ call' = [call EXCEPT ![p] =
          [c EXCEPT !.pc = "clientTimeout",
                    !.client.TLSHandshakeTimeout = TransportTimeout]]
    /\ UNCHANGED <<Timeout, TransportTimeout, Client, reassigned, started, ctxUses>>

\* defaultClient: http.Client{Timeout: Timeout(), ...}
ClientTimeout(p) ==
    LET c == call[p] IN
    /\ c.pc = "clientTimeout"
    /\ call' = [call EXCEPT ![p] =
          [c EXCEPT !.pc = "timeout", !.client.Timeout = Timeout]]
    /\ UNCHANGED <<Timeout, TransportTimeout, Client, reassigned, started, ctxUses>>

\* Exchange evaluates its second argument, Timeout(), and exchange creates
\* the deadline context: context.WithTimeout(ctx, timeout).
WithTimeout(p) ==
    LET c == call[p]
        id == NewContext(Contexts)
    IN
    /\ c.pc = "timeout"
    /\ ctxUses' = [ctxUses EXCEPT ![id] = @ + 1]
    /\ call' = [call EXCEPT ![p] =
          [c EXCEPT !.pc = "newreq", !.timeout = Timeout,
                    !.ctx = id, !.log = <<"ctx">>]]
    /\ UNCHANGED <<Timeout, TransportTimeout, Client, reassigned, started>>

\* http.NewRequest, then req.WithContext(ctx).
NewRequest(p) ==
    LET c == call[p] IN
    /\ c.pc = "newreq"
    /\ call' = [call EXCEPT ![p] =
          IF ValidURL(c.url) /\ ValidMethod(c.method)
          THEN [c EXCEPT !.pc = "callback",
                         !.req = [built |-> TRUE, ctx |-> c.ctx, header |-> {}],
                         !.log = @ \o <<"newreq", "bind">>]
          ELSE ReturnError(c, "construction")]
    /\ UNCHANGED <<Timeout, TransportTimeout, Client, reassigned, started, ctxUses>>

\* Mutant: the callback is never invoked.
CallbackSkipped(p) ==
    LET c == call[p] IN
    /\ c.pc = "callback"
    /\ call' = [call EXCEPT ![p] = [c EXCEPT !.pc = "do"]]
    /\ UNCHANGED <<Timeout, TransportTimeout, Client, reassigned, started, ctxUses>>

\* if requestCallback != nil { requestCallback(req) }
Callback(p) ==
    LET c == call[p] IN
    /\ c.pc = "callback"
    /\ call' = [call EXCEPT ![p] =
          IF c.cb # "nil"
          THEN [c EXCEPT !.pc = "do",
                         !.req.header = @ \cup CallbackHeaders(c.cb),
                         !.log = Append(@, "cb")]
          ELSE [c EXCEPT !.pc = "do"]]
    /\ UNCHANGED <<Timeout, TransportTimeout, Client, reassigned, started, ctxUses>>

\* client.Do(req) sends the request; the server will take `latency`.
Do(p, latency) ==
    LET c == call[p] IN
    /\ c.pc = "do"
    /\ call' = [call EXCEPT ![p] =
          [c EXCEPT !.pc = "waiting", !.latency = latency,
                    !.log = Append(@, "do")]]
    /\ UNCHANGED <<Timeout, TransportTimeout, Client, reassigned, started, ctxUses>>

\* Mutant: a transport error is retried once before it is returned.
DoErrorRetry(p) ==
    LET c == call[p] IN
    /\ c.pc = "waiting"
    /\ call' = [call EXCEPT ![p] =
          IF Len(SelectSeq(c.log, LAMBDA e : e = "do")) < 2
          THEN [c EXCEPT !.log = Append(@, "do")]
          ELSE ReturnError(c, "transport")]
    /\ UNCHANGED <<Timeout, TransportTimeout, Client, reassigned, started, ctxUses>>

\* client.Do returns a transport error (refused, reset, TLS failure).
DoError(p) ==
    LET c == call[p] IN
    /\ c.pc = "waiting"
    /\ call' = [call EXCEPT ![p] = ReturnError(c, "transport")]
    /\ UNCHANGED <<Timeout, TransportTimeout, Client, reassigned, started, ctxUses>>

\* client.Do returns because the deadline passed.
DoTimeout(p) ==
    LET c == call[p] IN
    /\ c.pc = "waiting"
    /\ c.elapsed >= Deadline(c)
    /\ call' = [call EXCEPT ![p] = ReturnError(c, "deadline")]
    /\ UNCHANGED <<Timeout, TransportTimeout, Client, reassigned, started, ctxUses>>

\* Mutant: the response is kept in a variable all calls share, so every
\* call waiting for a response takes it.
DoResponseShared(p, status, header) ==
    LET c == call[p] IN
    /\ c.pc = "waiting"
    /\ c.elapsed >= c.latency
    /\ c.elapsed <= Deadline(c)
    /\ call' = [q \in Callers |->
          IF call[q].pc = "waiting"
          THEN [call[q] EXCEPT !.pc = "reading", !.bodyState = "open",
                               !.res = [StatusCode |-> status, Header |-> header,
                                        Body |-> <<>>]]
          ELSE call[q]]
    /\ UNCHANGED <<Timeout, TransportTimeout, Client, reassigned, started, ctxUses>>

\* client.Do returns the server's response (status line and headers);
\* defer res.Body.Close().
DoResponse(p, status, header) ==
    LET c == call[p] IN
    /\ c.pc = "waiting"
    /\ c.elapsed >= c.latency
    /\ c.elapsed <= Deadline(c)
    /\ call' = [call EXCEPT ![p] =
          [c EXCEPT !.pc = "reading", !.bodyState = "open",
                    !.res = [StatusCode |-> status, Header |-> header,
                             Body |-> <<>>]]]
    /\ UNCHANGED <<Timeout, TransportTimeout, Client, reassigned, started, ctxUses>>

\* ioutil.ReadAll(res.Body) reads the whole body the server sends.
\* The response to a HEAD request and a 204 response carry no body.
ReadAll(p, body) ==
    LET c == call[p] IN
    /\ c.pc = "reading"
    /\ c.elapsed <= Deadline(c)
    /\ (c.method = "HEAD" \/ c.res.StatusCode = 204) => body = <<>>
    /\ call' = [call EXCEPT ![p] =
          ReturnEntity([c EXCEPT !.res.Body = body], c.res, body)]
    /\ UNCHANGED <<Timeout, TransportTimeout, Client, reassigned, started, ctxUses>>

\* ioutil.ReadAll fails midway: the connection breaks.
ReadError(p) ==
    LET c == call[p] IN
    /\ c.pc = "reading"
    /\ call' = [call EXCEPT ![p] = ReturnError(c, "read")]
    /\ UNCHANGED <<Timeout, TransportTimeout, Client, reassigned, started, ctxUses>>

\* ioutil.ReadAll fails because the deadline passed.
ReadTimeout(p) ==
    LET c == call[p] IN
    /\ c.pc = "reading"
    /\ c.elapsed >= Deadline(c)
    /\ call' = [call EXCEPT ![p] = ReturnError(c, "deadline")]
    /\ UNCHANGED <<Timeout, TransportTimeout, Client, reassigned, started, ctxUses>>

\* The caller drops the result and is ready for its next call.
Forget(p) ==
    /\ call[p].pc = "returned"
    /\ call' = [call EXCEPT ![p] = IdleCall]
    /\ UNCHANGED <<Timeout, TransportTimeout, Client, reassigned, started, ctxUses>>

Active(c) == c.pc \notin {"idle", "returned"}
\* The call is still evaluating Exchange's arguments Client() and Timeout().
Configuring(c) == c.pc \in {"tls", "clientTimeout", "timeout"}
\* exchange is running: its context exists.
Running(c) == Active(c) /\ ~Configuring(c)
Blocked(c) == c.pc \in {"waiting", "reading"}

\* Time passes while calls are blocked on the network (the only place a
\* call is suspended).  The runtime's timers fire at the deadline, so no
\* blocked call is carried past its deadline.
Tick ==
    /\ \E p \in Callers : Blocked(call[p])
    /\ \A p \in Callers : Active(call[p]) =>
          Blocked(call[p]) /\ call[p].elapsed < Deadline(call[p])
    /\ call' = [p \in Callers |->
          IF Blocked(call[p])
          THEN [call[p] EXCEPT !.elapsed = @ + TickStep]
          ELSE call[p]]
    /\ UNCHANGED <<Timeout, TransportTimeout, Client, reassigned, started, ctxUses>>

Step(p, statuses, headers) ==
    \/ TLSHandshakeTimeout(p)
    \/ ClientTimeout(p)
    \/ WithTimeout(p)
    \/ NewRequest(p)
    \/ Callback(p)
    \/ \E latency \in Latencies : Do(p, latency)
    \/ DoError(p)
    \/ DoTimeout(p)
    \/ \E status \in statuses, header \in headers : DoResponse(p, status, header)
    \/ \E body \in Bodies : ReadAll(p, body)
    \/ ReadError(p)
    \/ ReadTimeout(p)

ClientProviders == {"defaultClient", "bareClient"}
Callbacks == {"nil", "custom"}
Methods == {"GET", "BAD METHOD"}

Reassign ==
    \/ \E d \in Durations : SetTimeout(d)
    \/ \E d \in Durations : SetTransportTimeout(d)
    \/ \E k \in ClientProviders : SetClient(k)

\* Concurrent callers of Exchange against the test server.
Next ==
    \/ Reassign
    \/ \E p \in Callers, method \in Methods, url \in URLs, cb \in Callbacks :
          Begin(p, "Exchange", method, url, cb)
    \/ \E p \in Callers : Step(p, HandlerStatuses, {HandlerHeader})
    \/ \E p \in Callers : Forget(p)
    \/ Tick

Spec == Init /\ [][Next]_vars

\* One caller of the verb functions.
Main == "a"
Verbs == Kinds \ {"Exchange"}

VerbNext ==
    \/ Reassign
    \/ \E kind \in Verbs, url \in URLs :
          Begin(Main, kind, MethodOf(kind), url, "defaultRequestCallback")
    \/ Step(Main, Statuses, ServerHeaders \cup AllowHeaders)
    \/ Forget(Main)
    \/ Tick

VerbSpec == Init /\ [][VerbNext]_vars

\* Concurrent callers of Exchange who all pass the same callback and whose
\* servers all give the same answer when they answer: what differs between
\* the calls is the configuration they read and the timing.
TimedHeaders == { h \in ServerHeaders : "Allow" \in DOMAIN h.m }

TimedNext ==
    \/ Reassign
    \/ \E p \in Callers, url \in URLs :
          Begin(p, "Exchange", "GET", url, "custom")
    \/ \E p \in Callers : Step(p, {200}, TimedHeaders)
    \/ \E p \in Callers : Forget(p)
    \/ Tick

\* The runtime schedules every goroutine and fires every timer: a call's
\* own steps, the deadline and the passing of time are fair; whether and
\* when the server answers is left to the network.
Fairness ==
    /\ WF_vars(Tick)
    /\ \A p \in Callers :
          /\ WF_vars(TLSHandshakeTimeout(p) \/ ClientTimeout(p) \/ WithTimeout(p))
          /\ WF_vars(NewRequest(p) \/ Callback(p)
                       \/ \E latency \in Latencies : Do(p, latency))
          /\ WF_vars(DoTimeout(p) \/ ReadTimeout(p))

FairSpec == Init /\ [][TimedNext]_vars /\ Fairness

(* ------------------------------ claims --------------------------------- *)
Returned(p) == call[p].pc = "returned"
Failures == {"construction", "transport", "deadline", "read"}
Constructible(c) == ValidURL(c.url) /\ ValidMethod(c.method)

\* Number of times event e occurs in a call's log.
Count(log, e) == Cardinality({i \in 1..Len(log) : log[i] = e})
\* Position of the first occurrence of e in the log, 0 when there is none.
Pos(log, e) ==
    IF Count(log, e) = 0 THEN 0
    ELSE CHOOSE i \in 1..Len(log) :
           log[i] = e /\ \A j \in 1..(i - 1) : log[j] # e

\* C1: every returned Exchange call has either a nil error and an entity
\* that carries the status, headers and whole body of the response it
\* received, or a non-nil error (construction, dispatch or draining) and
\* the empty entity: status 0, no body, an empty header mapping.  The
\* header mapping is non-nil in both cases.
C1_OneOutcome ==
    \A p \in Callers : Returned(p) =>
        LET c == call[p] IN
        /\ ~c.re.Header.isNil
        /\ \/ /\ c.err = "nil"
              /\ c.res # NoResponse
              /\ c.re.StatusCode = c.res.StatusCode
              /\ c.re.Header = c.res.Header
              /\ c.re.Body = c.res.Body
           \/ /\ c.err \in Failures
              /\ c.re.StatusCode = 0
              /\ c.re.Body = <<>>
              /\ HeaderLen(c.re.Header) = 0

\* One call failed while draining the body and returned the empty entity;
\* the other returned a response with a non-empty body.
C1_Witness ==
    \E p, q \in Callers :
        /\ Returned(p) /\ call[p].err = "read" /\ call[p].re = EmptyEntity
        /\ Returned(q) /\ call[q].err = "nil" /\ call[q].re.Body # <<>>
           /\ call[q].re.StatusCode = 201
           /\ call[q].re.Header = HandlerHeader

\* C2 as stated: every returned Exchange call that was given a callback
\* has invoked it exactly once.
C2_Original ==
    \A p \in Callers :
        (Returned(p) /\ call[p].cb # "nil") => Count(call[p].log, "cb") = 1

\* C2 as amended: a call given a callback invokes it exactly once when the
\* request was constructed and not at all when construction failed; the
\* one invocation comes after the request was built and bound to the
\* context and before the dispatch, never after it, and a dispatched
\* request carries the headers the callback added.
C2_CallbackOnce ==
    \A p \in Callers :
        LET c == call[p]
            log == c.log
        IN
        /\ Count(log, "cb") <= 1
        /\ c.cb = "nil" => Count(log, "cb") = 0
        /\ Count(log, "cb") = 1 =>
              /\ 0 < Pos(log, "newreq")
              /\ Pos(log, "newreq") < Pos(log, "bind")
              /\ Pos(log, "bind") < Pos(log, "cb")
              /\ Count(log, "do") > 0 => Pos(log, "cb") < Pos(log, "do")
        /\ (c.cb # "nil" /\ Count(log, "do") > 0) =>
              /\ Count(log, "cb") = 1
              /\ CallbackHeaders(c.cb) \subseteq c.req.header
              /\ c.req.ctx = c.ctx
        /\ (Returned(p) /\ c.cb # "nil") =>
              Count(log, "cb") = IF Constructible(c) THEN 1 ELSE 0

\* A call with a callback was dispatched and returned after one
\* invocation, and a call with a callback failed at construction.
C2_Witness ==
    \E p, q \in Callers :
        /\ Returned(p) /\ call[p].cb = "custom" /\ Constructible(call[p])
           /\ Count(call[p].log, "cb") = 1 /\ Count(call[p].log, "do") = 1
        /\ Returned(q) /\ call[q].cb = "custom" /\ ~Constructible(call[q])
           /\ Count(call[q].log, "cb") = 0

\* C3: a call dispatches at most once at any time; a returned call has
\* dispatched zero times when request construction failed and exactly
\* once otherwise, also when the dispatch or the draining failed.
C3_DispatchCount ==
    \A p \in Callers :
        LET c == call[p] IN
        /\ Count(c.log, "do") <= 1
        /\ Returned(p) =>
              Count(c.log, "do") = IF Constructible(c) THEN 1 ELSE 0
        /\ (Returned(p) /\ c.err = "construction") =>
              ~Constructible(c) /\ ~c.req.built

\* One call failed at construction with no dispatch; the other failed at
\* dispatch and returned after its single dispatch.
C3_Witness ==
    \E p, q \in Callers :
        /\ Returned(p) /\ call[p].err = "construction"
           /\ Count(call[p].log, "do") = 0
        /\ Returned(q) /\ call[q].err = "transport"
           /\ Count(call[q].log, "do") = 1

\* C4: a call whose server takes longer than the request timeout does not
\* block past it.  No blocked call is ever past its deadline, counted
\* from the start of the call; a blocked call whose server needs longer
\* than the timeout returns a non-nil error and the empty entity with a
\* non-nil header mapping; and every call in progress returns.
C4_TimeoutBounds ==
    /\ [](\A p \in Callers :
            Blocked(call[p]) => call[p].elapsed <= call[p].timeout)
    /\ [][\A p \in Callers :
            (/\ Blocked(call[p])
             /\ call[p].latency > call[p].timeout
             /\ call'[p].pc = "returned")
            => /\ call'[p].err # "nil"
               /\ call'[p].re = EmptyEntity
               /\ ~call'[p].re.Header.isNil]_vars
    /\ \A p \in Callers : Active(call[p]) ~> Returned(p)

\* A call was cut off at the deadline and returned the empty entity.
C4_Witness ==
    \E p \in Callers :
        /\ Returned(p)
        /\ call[p].err = "deadline"
        /\ call[p].re = EmptyEntity
        /\ Count(call[p].log, "do") = 1

\* C5 as stated: the timeout and the client configuration are fixed once
\* and for all, so every exchange in progress uses the deadline duration
\* and the transport configuration that were in force initially.
C5_FixedConfiguration ==
    \A p \in Callers : Running(call[p]) =>
        /\ call[p].timeout = DefaultTimeout
        /\ call[p].client = [Timeout |-> DefaultTimeout,
                             DialTimeout |-> DefaultTransportTimeout,
                             TLSHandshakeTimeout |-> DefaultTransportTimeout]

\* C6: concurrent calls are independent.  A step of one call changes no
\* other call's record (context, request, response, entity); a record
\* that changes without its call stepping has only had time pass; and
\* the entity a call returns is made of the response that call itself
\* received.
C6_Independent ==
    [][\A q \in Callers :
          LET c == call[q]
              d == call'[q]
          IN
          /\ d.pc # c.pc => \A r \in Callers \ {q} : call'[r] = call[r]
          /\ (d # c /\ d.pc = c.pc) => d = [c EXCEPT !.elapsed = d.elapsed]
          /\ (c.pc = "reading" /\ d.pc = "returned" /\ d.err = "nil") =>
                /\ d.re.StatusCode = c.res.StatusCode
                /\ d.re.Header = c.res.Header
                /\ d.ctx = c.ctx /\ d.req = c.req]_vars

\* The call that started second has returned its own response while the
\* call that started first, given a different response, is still
\* draining its body.
C6_Witness ==
    \E p, q \in Callers :
        /\ call[p].ctx = 1 /\ call[p].pc = "reading"
        /\ call[q].ctx = 2 /\ Returned(q) /\ call[q].err = "nil"
        /\ call[q].re.StatusCode # call[p].res.StatusCode

Forwarding == {"Get", "Post", "Put", "Patch"}

\* The whole response reached the caller of exchange.
Answered(c) == c.res # NoResponse

\* C7: Get, Post, Put and Patch return exchange's entity and error as they
\* are; when the server's answer was received the error is nil, the status
\* is the server's, every header the server set is in the mapping with
\* its values, and the body is the whole body.  Head returns exchange's
\* header mapping and error and nothing else.
C7_VerbsForward ==
    LET c == call[Main] IN
    /\ (Returned(Main) /\ c.kind \in Forwarding) =>
          /\ c.out = [re |-> c.re, err |-> c.err]
          /\ Answered(c) =>
                /\ c.out.err = "nil"
                /\ c.out.re.StatusCode = c.res.StatusCode
                /\ \A n \in DOMAIN c.res.Header.m :
                      /\ n \in DOMAIN c.out.re.Header.m
                      /\ c.out.re.Header.m[n] = c.res.Header.m[n]
                /\ c.out.re.Body = c.res.Body
    /\ (Returned(Main) /\ c.kind = "Head") =>
          /\ DOMAIN c.out = {"header", "err"}
          /\ c.out.header = c.re.Header
          /\ c.out.err = c.err
          /\ Answered(c) => c.out.header = c.res.Header

\* Post has returned the test server's 201 answer with the headers the
\* server set and its body.
C7_Witness ==
    LET c == call[Main] IN
    /\ Returned(Main) /\ c.kind = "Post" /\ Answered(c)
    /\ c.out.re.StatusCode = 201
    /\ c.out.re.Body # <<>>
    /\ HeaderGet(c.out.re.Header, "Access-Control-Allow-Methods")
          = AccessControlAllowMethodsValue
    /\ HeaderGet(c.out.re.Header, "Access-Control-Allow-Headers")
          = AccessControlAllowHeadersValue

\* C8: Delete returns only the error; it is nil whenever the server's
\* answer was received, whatever the status, and non-nil only for a
\* failure of the construction or of the transport.
C8_DeleteError ==
    LET c == call[Main] IN
    (Returned(Main) /\ c.kind = "Delete") =>
        /\ DOMAIN c.out = {"err"}
        /\ Answered(c) => c.out.err = "nil"
        /\ c.out.err # "nil" => (c.out.err \in Failures /\ ~Answered(c))
        /\ c.out.err = "construction" <=> ~Constructible(c)

\* Delete has returned nil for an answer with status 500.
C8_Witness ==
    LET c == call[Main] IN
    /\ Returned(Main) /\ c.kind = "Delete"
    /\ Answered(c) /\ c.res.StatusCode = 500
    /\ c.out.err = "nil"

\* strings.Join(tokens, ",")
RECURSIVE Join(_)
Join(tokens) ==
    IF Len(tokens) = 0 THEN <<>>
    ELSE IF Len(tokens) = 1 THEN tokens[1]
    ELSE tokens[1] \o <<",">> \o Join(Tail(tokens))

\* The first value of the Allow header the server sent, "" when absent.
AllowSent(c) ==
    IF "Allow" \in DOMAIN c.res.Header.m THEN c.res.Header.m["Allow"][1] ELSE <<>>

AllowTestTrimmed ==
    << <<"P","O","S","T">>, <<"G","E","T">>, <<"O","P","T","I","O","N","S">>,
       <<"P","A","T","C","H">>, <<"P","U","T">>,
       <<"D","E","L","E","T","E">> >>

\* C9: OptionsForAllow returns the Allow value split on commas, in order
\* and untrimmed: the tokens hold no comma and joined by commas they give
\* the value back; for the test server's "POST, GET, OPTIONS, PATCH, PUT,
\* DELETE" every token after the first keeps its leading space, so the
\* list differs from the trimmed one.  An absent or empty Allow header
\* gives the empty list.
C9_AllowSplit ==
    LET c == call[Main]
        a == AllowSent(c)
    IN
    (Returned(Main) /\ c.kind = "OptionsForAllow" /\ Answered(c)) =>
        /\ c.out.err = "nil"
        /\ a = <<>> => c.out.allows = <<>>
        /\ a # <<>> =>
              /\ Len(c.out.allows) >= 1
              /\ Join(c.out.allows) = a
              /\ \A i \in 1..Len(c.out.allows) :
                    \A j \in 1..Len(c.out.allows[i]) : c.out.allows[i][j] # ","
        /\ a = AllowTestValue =>
              /\ c.out.allows =
                    << <<"P","O","S","T">>, <<" ","G","E","T">>,
                       <<" ","O","P","T","I","O","N","S">>,
                       <<" ","P","A","T","C","H">>, <<" ","P","U","T">>,
                       <<" ","D","E","L","E","T","E">> >>
              /\ c.out.allows # AllowTestTrimmed

\* OptionsForAllow has returned the six untrimmed tokens of the test
\* server's Allow header.
C9_Witness ==
    LET c == call[Main] IN
    /\ Returned(Main) /\ c.kind = "OptionsForAllow" /\ Answered(c)
    /\ AllowSent(c) = AllowTestValue
    /\ Len(c.out.allows) = 6
    /\ \A i \in 2..6 : c.out.allows[i][1] = " "

\* C10: a returned call holds nothing: its context is released on every
\* path and the response body, opened when the dispatch succeeded, is
\* closed whether or not the draining succeeded (closed before the
\* context is released).  A call in progress has a live context of its
\* own: every context is handed to one call only.
C10_NoLeak ==
    /\ \A p \in Callers :
          LET c == call[p] IN
          /\ Returned(p) =>
                /\ c.ctxDone
                /\ c.bodyState # "open"
                /\ c.err \in {"nil", "read"} => c.bodyState = "closed"
                /\ c.log[Len(c.log)] = "cancel"
                /\ c.bodyState = "closed" => c.log[Len(c.log) - 1] = "close"
          /\ c.pc = "reading" => c.bodyState = "open"
          /\ Running(c) => (~c.ctxDone /\ c.ctx >= 1)
          /\ Configuring(c) => c.ctx = 0
    /\ \A id \in DOMAIN ctxUses : ctxUses[id] <= 1
    /\ \A p, q \in Callers :
          (p # q /\ call[p].ctx # 0 /\ call[q].ctx # 0) =>
              call[p].ctx # call[q].ctx

\* One call failed while draining and returned with its body closed and
\* its context released; the other failed at dispatch and returned with
\* its own context released.
C10_Witness ==
    \E p, q \in Callers :
        /\ Returned(p) /\ call[p].err = "read"
           /\ call[p].bodyState = "closed" /\ call[p].ctxDone
        /\ Returned(q) /\ call[q].err = "transport"
           /\ call[q].bodyState = "none" /\ call[q].ctxDone
        /\ call[p].ctx # call[q].ctx

\* C11: when OptionsForAllow returns a non-nil error its list is empty and
\* not nil, the failed exchange having returned an empty header mapping;
\* a non-empty list comes with a nil error only.
C11_ErrorEmptyList ==
    LET c == call[Main] IN
    (Returned(Main) /\ c.kind = "OptionsForAllow") =>
        /\ c.out.err = c.err
        /\ c.out.err # "nil" =>
              /\ c.out.allows = <<>>
              /\ ~c.out.allowsNil
              /\ HeaderLen(c.re.Header) = 0 /\ ~c.re.Header.isNil
        /\ Len(c.out.allows) > 0 => c.out.err = "nil"

\* OptionsForAllow has returned the error of a failed body read together
\* with the empty, non-nil list.
C11_Witness ==
    LET c == call[Main] IN
    /\ Returned(Main) /\ c.kind = "OptionsForAllow"
    /\ c.out.err = "read"
    /\ c.out.allows = <<>> /\ ~c.out.allowsNil
    /\ Count(c.log, "close") = 1

====
